---- MODULE Spec2Model ----
(***************************************************************************)
(* Model of the SAM annotation front end: the zustand session store        *)
(* (frontend/src/store/useStore.ts), the canvas gesture handlers and the   *)
(* prediction calls of CanvasArea, and the in-flight segmentation          *)
(* requests whose responses resolve independently of the UI thread.        *)
(*                                                                         *)
(* JavaScript arrays are 0-based: historyIndex and currentImageIndex keep  *)
(* the code's values (-1 = empty history) and index the 1-based TLA+       *)
(* sequences with +1.  A value of type `T | null` is the empty tuple       *)
(* (null) or the one-element tuple <<v>>.  A JavaScript number that can be *)
(* a fraction (a scale, an offset, an image-space coordinate) is the exact *)
(* fraction <<numerator, denominator>> in lowest terms; pointer positions, *)
(* image sizes, indices and counters are integers.                         *)
(***************************************************************************)
EXTENDS Integers, Sequences, FiniteSets, TLC

VARIABLES
  store,        \* the zustand store (AppState data fields)
  isPanning,    \* CanvasArea useState
  lastPanPoint, \* CanvasArea useState
  isSpaceHeld,  \* CanvasArea useState
  isDrawingLasso, \* CanvasArea useState
  containerSize, \* CanvasArea useState
  image,        \* CanvasArea useImage: the id of the loaded image, or null
  nZoom,        \* number of wheel events handled (bounded)
  inflight,     \* predictMask calls that have not resolved yet
  saves,        \* saveLabels calls that have not resolved yet
  loads,        \* loadLabels calls that have not resolved yet
  nextId,       \* number of ids generateId has handed out
  nextSeq,      \* number of predictMask calls issued
  nMut,         \* number of object mutations performed (bounded)
  snaps,        \* history specification: every entry pushed, in order
  discarded,    \* history specification: entries cut off beyond the cursor by a push
  nUndo,        \* history specification: undo/redo calls made
  resolved,     \* point responses applied so far, with their request's seq and points
  last          \* the operation performed by the last step

vars == <<store, isPanning, lastPanPoint, isSpaceHeld, isDrawingLasso,
          containerSize, image, nZoom, inflight, saves, loads, nextId, nextSeq, nMut, snaps, discarded, nUndo,
          resolved, last>>

----------------------------------------------------------------------------
(* Bounds of the model *)

NumImages == 2
ImageWidth == 20
ImageHeight == 20
MaxObjects == 2
MaxMutations == 2
MaxRequests == 2
MaxInflight == 2
MaxPush == 60
MaxUndo == 2
MaxPan == 0
MaxTempPoints == 2
MaxLassoPoints == 3
MaxZoom == 2
MaxSaves == 2
MaxCoord == 1
MaxRingLen == 4

(* Program constants *)

MaxHistory == 50
MinBoxSize == 10

null == <<>>

Min(a, b) == IF a < b THEN a ELSE b
Max(a, b) == IF a > b THEN a ELSE b
Abs(n) == IF n < 0 THEN -n ELSE n

----------------------------------------------------------------------------
(* Numbers: exact fractions <<n, d>> with d > 0 and gcd(n, d) = 1 *)

RECURSIVE gcd(_, _)
gcd(a, b) == IF b = 0 THEN a ELSE gcd(b, a % b)

Frac(n, d) ==
  LET sign == IF d < 0 THEN -1 ELSE 1
      g == gcd(Abs(n), Abs(d))
  IN <<(sign * n) \div g, (sign * d) \div g>>

Num(n) == <<n, 1>>

\* The arithmetic cancels common factors before it multiplies.
plus(a, b) ==
  LET g == gcd(a[2], b[2])
  IN Frac(a[1] * (b[2] \div g) + b[1] * (a[2] \div g), (a[2] \div g) * b[2])

minus(a, b) == plus(a, <<-b[1], b[2]>>)

times(a, b) ==
  LET g1 == gcd(Abs(a[1]), b[2])
      g2 == gcd(Abs(b[1]), a[2])
  IN Frac((a[1] \div g1) * (b[1] \div g2), (a[2] \div g2) * (b[2] \div g1))

over(a, b) == times(a, Frac(b[2], b[1]))

lt(a, b) ==
  LET g == gcd(a[2], b[2])
  IN a[1] * (b[2] \div g) < b[1] * (a[2] \div g)

le(a, b) == ~lt(b, a)

MathMin(a, b) == IF lt(b, a) THEN b ELSE a
MathMax(a, b) == IF lt(a, b) THEN b ELSE a
MathAbs(a) == <<Abs(a[1]), a[2]>>

----------------------------------------------------------------------------

ToolModes == {"select", "bbox", "point"}

Pt(x, y) == [x |-> x, y |-> y]

\* The image-space point with integer coordinates x and y.
ImgPt(x, y) == Pt(Num(x), Num(y))

\* A polygon vertex [x, y] with integer coordinates.
Vtx(x, y) == <<Num(x), Num(y)>>

\* Pointer positions of the events, in screen space; the last one lies
\* outside the image.
Pointers == {Pt(0, 0), Pt(ImageWidth, ImageHeight), Pt(5, ImageHeight + 10)}

\* Buttons of the pointer events: 0 is the primary button.
Buttons == {0}

\* Size of the canvas container: the useState default, and sizes the
\* resize handler reads from the DOM.
InitialSize == [width |-> 800, height |-> 600]

ContainerSizes ==
  { InitialSize, [width |-> 110, height |-> 300],
    [width |-> 101, height |-> 102], [width |-> 50, height |-> 400] }

\* Values sent to setMaskOpacity (in hundredths) and to
\* setSimplificationEpsilon (in tenths).  The sliders send 0..100; the store
\* operations accept any number.
SliderValues == {-50, 50, 150}

\* Signs of the deltaY of a wheel event.
WheelDeltas == {-1, 1}

Images == [i \in 1..NumImages |->
             [id |-> <<"img", i>>, width |-> ImageWidth, height |-> ImageHeight]]

\* Responses of the segmentation oracle (an opaque external service).
OracleResponses ==
  { [polygon |-> <<Vtx(0, 0), Vtx(10, 0), Vtx(10, 10)>>, score |-> 9],
    [polygon |-> <<Vtx(5, 5), Vtx(20, 5), Vtx(20, 20), Vtx(5, 20)>>,
     score |-> 7] }

\* Outcomes of a call of the polygon-clipping library (an opaque external
\* library): it throws, or returns a multipolygon, a list of polygons that
\* are lists of rings.
ClipOutcomes ==
  { [throws |-> TRUE, result |-> <<>>],
    [throws |-> FALSE, result |-> <<>>],
    [throws |-> FALSE,
     result |-> << << <<Vtx(0, 0), Vtx(15, 0), Vtx(15, 15), Vtx(0, 15),
                        Vtx(0, 0)>> >> >>],
    [throws |-> FALSE,
     result |-> << << <<Vtx(0, 0), Vtx(5, 0), Vtx(5, 5), Vtx(0, 0)>> >>,
                   << <<Vtx(10, 10), Vtx(20, 10), Vtx(20, 20),
                        Vtx(10, 10)>> >> >>],
    [throws |-> FALSE,
     result |-> << << <<Vtx(5, 5), Vtx(5, 10), Vtx(10, 10), Vtx(10, 5),
                        Vtx(5, 5)>>,
                      <<Vtx(0, 0), Vtx(0, 20), Vtx(20, 20), Vtx(20, 0),
                        Vtx(0, 0)>> >> >>] }

NoCall == [fn |-> "none", subject |-> <<>>, clipping |-> <<>>,
           outcome |-> [throws |-> FALSE, result |-> <<>>]]

NoRequest == [seq |-> 0, kind |-> "none", image |-> null,
              bbox |-> null, objId |-> null,
              pointsPos |-> <<>>, pointsNeg |-> <<>>]

----------------------------------------------------------------------------
(* The session store *)

initialState ==
  [ sessionId |-> null,
    images |-> <<>>,
    currentImageIndex |-> 0,
    currentImage |-> null,
    objects |-> <<>>,
    selectedObjectId |-> null,
    toolMode |-> "bbox",
    lassoMode |-> "add",
    isDrawingBbox |-> FALSE,
    tempBbox |-> null,
    lassoPoints |-> <<>>,
    tempPoints |-> [pos |-> <<>>, neg |-> <<>>],
    pointType |-> "positive",
    scale |-> Num(1),
    position |-> ImgPt(0, 0),
    maskOpacity |-> Frac(1, 2),
    simplificationEpsilon |-> Num(2),
    history |-> <<>>,
    historyIndex |-> -1,
    isLoading |-> FALSE,
    isSaving |-> FALSE,
    hasUnsavedChanges |-> FALSE ]

\* JSON.parse(JSON.stringify(objects)): a structural copy of every object,
\* field by field; all modelled fields are finite numbers, strings and arrays.
jsonCopy(objects) ==
  [i \in 1..Len(objects) |->
     [ id |-> objects[i].id,
       class_id |-> objects[i].class_id,
       bbox |-> objects[i].bbox,
       points_pos |-> objects[i].points_pos,
       points_neg |-> objects[i].points_neg,
       polygon |-> objects[i].polygon,
       score |-> objects[i].score ]]

setSession(s, sessionId, images) ==
  [s EXCEPT !.sessionId = sessionId,
            !.images = images,
            !.currentImageIndex = 0,
            !.currentImage = IF Len(images) > 0 THEN <<images[1]>> ELSE null,
            !.objects = <<>>,
            !.history = <<>>,
            !.historyIndex = -1]

\* setCurrentImageIndex that clears the image's state for any index.
setCurrentImageIndex_clearsAlways(s, index) ==
  IF index >= 0 /\ index < Len(s.images)
  THEN [s EXCEPT !.currentImageIndex = index,
                 !.currentImage = <<s.images[index + 1]>>,
                 !.objects = <<>>,
                 !.selectedObjectId = null,
                 !.tempBbox = null,
                 !.lassoPoints = <<>>,
                 !.history = <<>>,
                 !.historyIndex = -1,
                 !.hasUnsavedChanges = FALSE]
  ELSE [s EXCEPT !.objects = <<>>,
                 !.selectedObjectId = null,
                 !.tempBbox = null,
                 !.lassoPoints = <<>>,
                 !.history = <<>>,
                 !.historyIndex = -1,
                 !.hasUnsavedChanges = FALSE]

\* setCurrentImageIndex that forgets the history.
setCurrentImageIndex_keepsHistory(s, index) ==
  IF index >= 0 /\ index < Len(s.images)
  THEN [s EXCEPT !.currentImageIndex = index,
                 !.currentImage = <<s.images[index + 1]>>,
                 !.objects = <<>>,
                 !.selectedObjectId = null,
                 !.tempBbox = null,
                 !.lassoPoints = <<>>,
                 !.hasUnsavedChanges = FALSE]
  ELSE s

setCurrentImageIndex(s, index) ==
  IF index >= 0 /\ index < Len(s.images)
  THEN [s EXCEPT !.currentImageIndex = index,
                 !.currentImage = <<s.images[index + 1]>>,
                 !.objects = <<>>,
                 !.selectedObjectId = null,
                 !.tempBbox = null,
                 !.lassoPoints = <<>>,
                 !.history = <<>>,
                 !.historyIndex = -1,
                 !.hasUnsavedChanges = FALSE]
  ELSE s

\* pushHistory that evicts with pop() instead of shift().
pushHistory_evictsNewest(s, now) ==
  LET newHistory == Append(SubSeq(s.history, 1, s.historyIndex + 1),
                           [objects |-> jsonCopy(s.objects),
                            timestamp |-> now])
      limited == IF Len(newHistory) > MaxHistory
                 THEN SubSeq(newHistory, 1, Len(newHistory) - 1)
                 ELSE newHistory
  IN [s EXCEPT !.history = limited,
               !.historyIndex = Len(limited) - 1]

\* pushHistory that appends without cutting the entries beyond the cursor.
pushHistory_keepsTail(s, now) ==
  LET newHistory == Append(s.history, [objects |-> jsonCopy(s.objects),
                                       timestamp |-> now])
      limited == IF Len(newHistory) > MaxHistory THEN Tail(newHistory)
                                                 ELSE newHistory
  IN [s EXCEPT !.history = limited,
               !.historyIndex = Len(limited) - 1]

\* now is the value Date.now() returns at the call.
pushHistory(s, now) ==
  LET newHistory == Append(SubSeq(s.history, 1, s.historyIndex + 1),
                           [objects |-> jsonCopy(s.objects),
                            timestamp |-> now])
      limited == IF Len(newHistory) > MaxHistory THEN Tail(newHistory)
                                                 ELSE newHistory
  IN [s EXCEPT !.history = limited,
               !.historyIndex = Len(limited) - 1]

addObject(s, object, now) ==
  LET objects == s.objects
      s1 == pushHistory(s, now)
  IN [s1 EXCEPT !.objects = Append(objects, object),
                !.selectedObjectId = object.id,
                !.hasUnsavedChanges = TRUE]

\* { ...obj, ...updates }: the fields named in updates replace obj's.
merge(obj, updates) ==
  [f \in DOMAIN obj |-> IF f \in DOMAIN updates THEN updates[f] ELSE obj[f]]

\* updateObject that pushes the history after changing the objects.
updateObject_pushesAfter(s, id, updates, now) ==
  LET objects == s.objects
      s1 == [s EXCEPT !.objects = [i \in 1..Len(objects) |->
                                    IF objects[i].id = id
                                    THEN merge(objects[i], updates)
                                    ELSE objects[i]],
                      !.hasUnsavedChanges = TRUE]
  IN pushHistory(s1, now)

updateObject(s, id, updates, now) ==
  LET objects == s.objects
      s1 == pushHistory(s, now)
  IN [s1 EXCEPT !.objects = [i \in 1..Len(objects) |->
                               IF objects[i].id = id
                               THEN merge(objects[i], updates)
                               ELSE objects[i]],
                !.hasUnsavedChanges = TRUE]

deleteObject(s, id, now) ==
  LET objects == s.objects
      selectedObjectId == s.selectedObjectId
      s1 == pushHistory(s, now)
  IN [s1 EXCEPT !.objects = SelectSeq(objects, LAMBDA obj : obj.id # id),
                !.selectedObjectId =
                   IF selectedObjectId = id THEN null ELSE selectedObjectId,
                !.hasUnsavedChanges = TRUE]

selectObject(s, id) == [s EXCEPT !.selectedObjectId = id]

setToolMode(s, mode) ==
  [s EXCEPT !.toolMode = mode,
            !.tempBbox = null,
            !.isDrawingBbox = FALSE,
            !.lassoPoints = <<>>]

setTempBbox(s, bbox) == [s EXCEPT !.tempBbox = bbox]

setLassoMode(s, mode) == [s EXCEPT !.lassoMode = mode]

addLassoPoint(s, point) == [s EXCEPT !.lassoPoints = Append(@, point)]

clearLassoPoints(s) == [s EXCEPT !.lassoPoints = <<>>]

\* setScale without the lower limit.
setScale_upperOnly(s, scale) == [s EXCEPT !.scale = MathMin(Num(5), scale)]

setScale(s, scale) ==
  [s EXCEPT !.scale = MathMax(Frac(1, 10), MathMin(Num(5), scale))]

setMaskOpacity(s, opacity) ==
  [s EXCEPT !.maskOpacity = MathMax(Num(0), MathMin(Num(1), opacity))]

setSimplificationEpsilon(s, epsilon) ==
  [s EXCEPT !.simplificationEpsilon =
              MathMax(Num(0), MathMin(Num(10), epsilon))]

setSaving(s, saving) == [s EXCEPT !.isSaving = saving]

setHasUnsavedChanges(s, hasChanges) == [s EXCEPT !.hasUnsavedChanges = hasChanges]

addTempPoint(s, point, type) ==
  IF type = "positive"
  THEN [s EXCEPT !.tempPoints.pos = Append(@, point)]
  ELSE [s EXCEPT !.tempPoints.neg = Append(@, point)]

clearTempPoints(s) == [s EXCEPT !.tempPoints = [pos |-> <<>>, neg |-> <<>>]]

setPosition(s, position) == [s EXCEPT !.position = position]

setLoading(s, loading) == [s EXCEPT !.isLoading = loading]

\* undo that restores the previous entry but leaves the cursor in place.
undo_keepsIndex(s) ==
  IF s.historyIndex > 0
  THEN LET prevState == s.history[(s.historyIndex - 1) + 1]
       IN [s EXCEPT !.objects = jsonCopy(prevState.objects),
                    !.hasUnsavedChanges = TRUE]
  ELSE s

\* undo that also acts at cursor 0, restoring the entry under the cursor.
undo_fromZero(s) ==
  IF s.historyIndex >= 0
  THEN LET prevState == s.history[s.historyIndex + 1]
       IN [s EXCEPT !.objects = jsonCopy(prevState.objects),
                    !.historyIndex = s.historyIndex - 1,
                    !.hasUnsavedChanges = TRUE]
  ELSE s

\* undo that also drops the selection.
undo_deselects(s) ==
  IF s.historyIndex > 0
  THEN LET prevState == s.history[(s.historyIndex - 1) + 1]
       IN [s EXCEPT !.objects = jsonCopy(prevState.objects),
                    !.historyIndex = s.historyIndex - 1,
                    !.selectedObjectId = null,
                    !.hasUnsavedChanges = TRUE]
  ELSE s

undo(s) ==
  IF s.historyIndex > 0
  THEN LET prevState == s.history[(s.historyIndex - 1) + 1]
       IN [s EXCEPT !.objects = jsonCopy(prevState.objects),
                    !.historyIndex = s.historyIndex - 1,
                    !.hasUnsavedChanges = TRUE]
  ELSE s

\* redo that restores the entry under the cursor instead of the next one.
redo_restoresCurrent(s) ==
  IF s.historyIndex < Len(s.history) - 1
  THEN LET nextState == s.history[s.historyIndex + 1]
       IN [s EXCEPT !.objects = jsonCopy(nextState.objects),
                    !.historyIndex = s.historyIndex + 1,
                    !.hasUnsavedChanges = TRUE]
  ELSE s

redo(s) ==
  IF s.historyIndex < Len(s.history) - 1
  THEN LET nextState == s.history[(s.historyIndex + 1) + 1]
       IN [s EXCEPT !.objects = jsonCopy(nextState.objects),
                    !.historyIndex = s.historyIndex + 1,
                    !.hasUnsavedChanges = TRUE]
  ELSE s

----------------------------------------------------------------------------
(* CanvasArea helpers *)

getImagePosition(s, pointer) ==
  Pt(over(minus(Num(pointer.x), s.position.x), s.scale),
     over(minus(Num(pointer.y), s.position.y), s.scale))

generateId(n) == <<"obj", n>>

find(objects, id) ==
  IF \E i \in 1..Len(objects) : objects[i].id = id
  THEN <<objects[CHOOSE i \in 1..Len(objects) :
                   /\ objects[i].id = id
                   /\ \A j \in 1..(i - 1) : objects[j].id # id]>>
  ELSE null

\* The rectangle of a box gesture after min/max normalization.
normalizeBbox(t) ==
  [ x_min |-> MathMin(t.x_min, t.x_max),
    y_min |-> MathMin(t.y_min, t.y_max),
    x_max |-> MathMax(t.x_min, t.x_max),
    y_max |-> MathMax(t.y_min, t.y_max) ]

\* Minimum size check that accepts a box large in one axis only.
bigEnough_either(bbox) ==
  \/ lt(Num(MinBoxSize), minus(bbox.x_max, bbox.x_min))
  \/ lt(Num(MinBoxSize), minus(bbox.y_max, bbox.y_min))

\* Minimum size check of handleMouseUp.
bigEnough(bbox) ==
  /\ lt(Num(MinBoxSize), minus(bbox.x_max, bbox.x_min))
  /\ lt(Num(MinBoxSize), minus(bbox.y_max, bbox.y_min))

\* A filter that looks at x only.
withinImage_xOnly(s, pos) ==
  le(Num(0), pos.x) /\ le(pos.x, Num(s.currentImage[1].width))

\* Bounds check of handleMouseMove for a lasso point.
withinImage(s, pos) ==
  /\ le(Num(0), pos.x) /\ le(pos.x, Num(s.currentImage[1].width))
  /\ le(Num(0), pos.y) /\ le(pos.y, Num(s.currentImage[1].height))

\* Start condition that does not ask for a selected object.
canStartLasso_anySelection(s) == s.toolMode = "lasso"

\* handleMouseDown starts a lasso stroke.
canStartLasso(s) == s.toolMode = "lasso" /\ s.selectedObjectId # null

\* Threshold that applies a stroke of two points.
enoughPoints_two(lassoPoints) == Len(lassoPoints) >= 2

\* handleMouseUp applies a lasso stroke of this many points.
enoughPoints(lassoPoints) == Len(lassoPoints) >= 3

\* Twice the shoelace sum of the ring from vertex i on (1-based).
RECURSIVE shoelace(_, _)
shoelace(polygon, i) ==
  IF i > Len(polygon) THEN Num(0)
  ELSE LET j == (i % Len(polygon)) + 1
       IN plus(minus(times(polygon[i][1], polygon[j][2]),
                     times(polygon[j][1], polygon[i][2])),
               shoelace(polygon, i + 1))

\* An area without its sign.
polygonArea_unsigned(polygon) == MathAbs(over(shoelace(polygon, 1), Num(2)))

polygonArea(polygon) == over(shoelace(polygon, 1), Num(2))

\* The rings of a multipolygon in the order the two nested loops visit them.
RECURSIVE allRings(_)
allRings(result) ==
  IF result = <<>> THEN <<>> ELSE Head(result) \o allRings(Tail(result))

\* The loop over the rings: a ring replaces the largest so far when its
\* area is strictly greater.
\* A loop that never replaces the first ring.
largestRing_keepsFirst(rings, largestPoly, maxArea) == largestPoly

RECURSIVE largestRing(_, _, _)
largestRing(rings, largestPoly, maxArea) ==
  IF rings = <<>> THEN largestPoly
  ELSE LET area == MathAbs(polygonArea(Head(rings)))
       IN IF lt(maxArea, area)
          THEN largestRing(Tail(rings), Head(rings), area)
          ELSE largestRing(Tail(rings), largestPoly, maxArea)

\* clip is the outcome of polygonClipping.union([poly1], [poly2]).
polygonUnion(poly1, poly2, clip) ==
  IF clip.throws THEN poly1
  ELSE IF Len(clip.result) > 0 /\ Len(clip.result[1]) > 0
  THEN largestRing(allRings(clip.result), clip.result[1][1],
                   MathAbs(polygonArea(clip.result[1][1])))
  ELSE poly1

\* polygonDifference that falls back to the lasso ring.
polygonDifference_fallsBackToLasso(poly1, poly2, clip) ==
  IF clip.throws THEN poly2
  ELSE IF Len(clip.result) > 0 /\ Len(clip.result[1]) > 0
  THEN largestRing(allRings(clip.result), clip.result[1][1],
                   MathAbs(polygonArea(clip.result[1][1])))
  ELSE poly2

\* clip is the outcome of polygonClipping.difference([poly1], [poly2]).
polygonDifference(poly1, poly2, clip) ==
  IF clip.throws THEN poly1
  ELSE IF Len(clip.result) > 0 /\ Len(clip.result[1]) > 0
  THEN largestRing(allRings(clip.result), clip.result[1][1],
                   MathAbs(polygonArea(clip.result[1][1])))
  ELSE poly1

\* Math.min(...xs) and Math.max(...xs) over coordinate k of a polygon.
RECURSIVE minOf(_, _)
minOf(polygon, k) ==
  IF Len(polygon) = 1 THEN polygon[1][k]
  ELSE MathMin(polygon[1][k], minOf(Tail(polygon), k))

RECURSIVE maxOf(_, _)
maxOf(polygon, k) ==
  IF Len(polygon) = 1 THEN polygon[1][k]
  ELSE MathMax(polygon[1][k], maxOf(Tail(polygon), k))

\* lasso.map(p => [p.x, p.y])
lassoPolygon(lasso) == [i \in 1..Len(lasso) |-> <<lasso[i].x, lasso[i].y>>]

\* The library call applyLassoMask makes for a stroke.
clipCall(obj, lasso, mode, clip) ==
  [ fn |-> IF mode = "add" THEN "union" ELSE "difference",
    subject |-> obj.polygon,
    clipping |-> lassoPolygon(lasso),
    outcome |-> clip ]

NoResponse == [polygon |-> <<>>, score |-> 0]

\* What a step remembers of the store it started from.
preOf(s) ==
  [ objects |-> Len(s.objects),
    selected |-> s.selectedObjectId # null,
    history |-> Len(s.history),
    historyIndex |-> s.historyIndex,
    tempBbox |-> s.tempBbox ]

\* The record of a step: the handler or store operation that ran, its
\* argument, the request it issued or settled, the response applied, and a
\* summary of the store before the step.
Last(op, arg, req, resp) ==
  [op |-> op, arg |-> arg, req |-> req, resp |-> resp, call |-> NoCall,
   pointer |-> null, pre |-> preOf(store)]

\* The record of a step that called the polygon-clipping library.
LastCall(op, call) ==
  [op |-> op, arg |-> 0, req |-> NoRequest, resp |-> NoResponse,
   call |-> call, pointer |-> null, pre |-> preOf(store)]

\* The record of a wheel event: the sign of deltaY and the pointer.
LastWheel(op, deltaY, pointer) ==
  [op |-> op, arg |-> deltaY, req |-> NoRequest, resp |-> NoResponse,
   call |-> NoCall, pointer |-> <<pointer>>, pre |-> preOf(store)]

\* The record of a press that did not start a pan: the pointer and the
\* request the press issued.
LastPress(pointer, req) ==
  [op |-> "mouseDown", arg |-> 0, req |-> req, resp |-> NoResponse,
   call |-> NoCall, pointer |-> <<pointer>>, pre |-> preOf(store)]

\* The record of the state after construction.
InitLast(s) ==
  [op |-> "init", arg |-> 0, req |-> NoRequest, resp |-> NoResponse,
   call |-> NoCall, pointer |-> null, pre |-> preOf(s)]

Op(op) == Last(op, 0, NoRequest, NoResponse)

\* The argument recorded by a press that took the panning branch.
StartedPan == 1

\* The steps that call addObject, updateObject or deleteObject.
Mutators == {"addObject", "updateObject", "deleteObject",
             "resolveBox", "resolvePoints", "lassoEdit"}

ghostVars == <<snaps, discarded, nUndo>>
viewVars == <<containerSize, image, nZoom>>
canvasVars == <<isPanning, lastPanPoint, isSpaceHeld, isDrawingLasso, viewVars>>

\* useImage after the store changed to s: the loaded image is kept if it is
\* still the current image's.
useImage(s) ==
  IF s.currentImage # null /\ image = <<s.currentImage[1].id>> THEN image
                                                                ELSE null
asyncVars == <<inflight, saves, loads, nextSeq, resolved>>

----------------------------------------------------------------------------
(* Initial state: the store as constructed, the canvas component mounted *)

Init ==
  /\ store = initialState
  /\ isPanning = FALSE
  /\ lastPanPoint = null
  /\ isSpaceHeld = FALSE
  /\ isDrawingLasso = FALSE
  /\ containerSize = InitialSize
  /\ image = null
  /\ nZoom = 0
  /\ inflight = {}
  /\ saves = <<>>
  /\ loads = <<>>
  /\ nextId = 0
  /\ nextSeq = 0
  /\ nMut = 0
  /\ snaps = <<>>
  /\ discarded = {}
  /\ nUndo = 0
  /\ resolved = {}
  /\ last = InitLast(initialState)

----------------------------------------------------------------------------
(* Setup, navigation, selection, tools *)

\* SetupPanel: initSession succeeded.
SetSession ==
  /\ store.sessionId = null
  /\ store' = setSession(store, <<"session">>, Images)
  /\ image' = useImage(store')
  /\ last' = Op("setSession")
  /\ UNCHANGED <<isPanning, lastPanPoint, isSpaceHeld, isDrawingLasso,
                 containerSize, nZoom, asyncVars, ghostVars, nextId, nMut>>

SetCurrentImageIndex ==
  \E index \in -1..Len(store.images) :
    /\ store' = setCurrentImageIndex(store, index)
    /\ image' = useImage(store')
    /\ last' = Last("setCurrentImageIndex", index, NoRequest, NoResponse)
    /\ UNCHANGED <<isPanning, lastPanPoint, isSpaceHeld, isDrawingLasso,
                   containerSize, nZoom, asyncVars, ghostVars, nextId, nMut>>

\* Click on an object overlay or on an entry of the object list.
SelectObject ==
  \E i \in 1..Len(store.objects) :
    /\ store' = selectObject(store, store.objects[i].id)
    /\ last' = Op("selectObject")
    /\ UNCHANGED <<canvasVars, asyncVars, ghostVars, nextId, nMut>>

SetToolMode ==
  \E mode \in ToolModes :
    /\ store' = setToolMode(store, mode)
    /\ last' = Op("setToolMode")
    /\ UNCHANGED <<canvasVars, asyncVars, ghostVars, nextId, nMut>>

\* Delete key (the selected id) or the trash button of a list entry.
DeleteObject ==
  \E id \in {store.selectedObjectId}
              \cup {store.objects[i].id : i \in 1..Len(store.objects)} :
    /\ id # null
    /\ nMut < MaxMutations
    /\ store' = deleteObject(store, id, nMut)
    /\ nMut' = nMut + 1
    /\ last' = Op("deleteObject")
    /\ UNCHANGED <<canvasVars, asyncVars, ghostVars, nextId>>

\* A tool shortcut of the application's key handler.
toolShortcut(mode) ==
  /\ store' = setToolMode(store, mode)
  /\ last' = Op("setToolMode")
  /\ UNCHANGED <<canvasVars, asyncVars, ghostVars, nextId, nMut>>

\* The keys b, l and v.
ToolShortcut == \E mode \in {"bbox", "lasso", "select"} : toolShortcut(mode)

\* The keys l and v.
LassoToolKeys == \E mode \in {"lasso", "select"} : toolShortcut(mode)

\* Keyboard shortcuts + and - or the lasso mode buttons of the toolbar.
SetLassoMode ==
  \E mode \in {"add", "subtract"} :
    /\ store' = setLassoMode(store, mode)
    /\ last' = Op("setLassoMode")
    /\ UNCHANGED <<canvasVars, asyncVars, ghostVars, nextId, nMut>>

Undo ==
  /\ store' = undo(store)
  /\ last' = Op("undo")
  /\ UNCHANGED <<canvasVars, asyncVars, ghostVars, nextId, nMut>>

Redo ==
  /\ store' = redo(store)
  /\ last' = Op("redo")
  /\ UNCHANGED <<canvasVars, asyncVars, ghostVars, nextId, nMut>>

----------------------------------------------------------------------------
(* Pointer and key handlers of the canvas *)

SpaceDown ==
  /\ ~isSpaceHeld
  /\ isSpaceHeld' = TRUE
  /\ last' = Op("spaceDown")
  /\ UNCHANGED <<store, isPanning, lastPanPoint, isDrawingLasso, viewVars, asyncVars,
                 ghostVars, nextId, nMut>>

SpaceUp ==
  /\ isSpaceHeld
  /\ isSpaceHeld' = FALSE
  /\ isPanning' = FALSE
  /\ lastPanPoint' = null
  /\ last' = Op("spaceUp")
  /\ UNCHANGED <<store, isDrawingLasso, viewVars, asyncVars, ghostVars, nextId, nMut>>

\* A predictMask call can be issued within the bounds of the model.
canIssue == nextSeq < MaxRequests /\ Cardinality(inflight) < MaxInflight

\* runPrediction up to its await: the request it sends.
pointsRequest(s, obj, pointsPos, pointsNeg, seq) ==
  [ seq |-> seq, kind |-> "points",
    image |-> <<s.currentImage[1].id>>,
    bbox |-> <<obj.bbox>>, objId |-> obj.id,
    pointsPos |-> pointsPos, pointsNeg |-> pointsNeg ]

\* createObjectWithPrediction up to its await: the request it sends.
boxRequest(s, bbox, seq) ==
  [ seq |-> seq, kind |-> "box",
    image |-> <<s.currentImage[1].id>>,
    bbox |-> <<bbox>>, objId |-> null,
    pointsPos |-> <<>>, pointsNeg |-> <<>> ]

\* The fit effect of the canvas for a loaded image and a container size.
fitImage(s, size) ==
  LET currentImage == s.currentImage[1]
      scaleX == Frac(size.width - 100, currentImage.width)
      scaleY == Frac(size.height - 100, currentImage.height)
      fitScale == MathMin(MathMin(scaleX, scaleY), Num(1))
  IN setPosition(
       setScale(s, fitScale),
       Pt(over(minus(Num(size.width),
                     times(Num(currentImage.width), fitScale)), Num(2)),
          over(minus(Num(size.height),
                     times(Num(currentImage.height), fitScale)), Num(2))))

\* The zoom factor of one wheel event.
scaleBy == Frac(11, 10)

\* handleWheel that offsets by the scale before clamping.
wheelZoom_unclampedOffset(s, deltaY, pointer) ==
  LET oldScale == s.scale
      newScale == IF deltaY > 0 THEN over(oldScale, scaleBy)
                                ELSE times(oldScale, scaleBy)
      clampedScale == MathMax(Frac(1, 10), MathMin(Num(5), newScale))
      mousePointTo == Pt(over(minus(Num(pointer.x), s.position.x), oldScale),
                         over(minus(Num(pointer.y), s.position.y), oldScale))
  IN setPosition(
       setScale(s, clampedScale),
       Pt(minus(Num(pointer.x), times(mousePointTo.x, newScale)),
          minus(Num(pointer.y), times(mousePointTo.y, newScale))))

\* handleWheel: the store after a wheel event at the pointer.
wheelZoom(s, deltaY, pointer) ==
  LET oldScale == s.scale
      newScale == IF deltaY > 0 THEN over(oldScale, scaleBy)
                                ELSE times(oldScale, scaleBy)
      clampedScale == MathMax(Frac(1, 10), MathMin(Num(5), newScale))
      mousePointTo == Pt(over(minus(Num(pointer.x), s.position.x), oldScale),
                         over(minus(Num(pointer.y), s.position.y), oldScale))
  IN setPosition(
       setScale(s, clampedScale),
       Pt(minus(Num(pointer.x), times(mousePointTo.x, clampedScale)),
          minus(Num(pointer.y), times(mousePointTo.y, clampedScale))))

\* applyLassoMask: the boolean edit of obj's polygon with a lasso stroke;
\* clip is the outcome of the library call it makes.
applyLassoMask(s, obj, lasso, mode, clip, now) ==
  LET originalPolygon == obj.polygon
      newPolygon == IF mode = "add"
                    THEN polygonUnion(originalPolygon, lassoPolygon(lasso), clip)
                    ELSE polygonDifference(originalPolygon, lassoPolygon(lasso),
                                           clip)
      currentImage == s.currentImage[1]
      newBbox ==
        [ x_min |-> MathMax(Num(0), minOf(newPolygon, 1)),
          y_min |-> MathMax(Num(0), minOf(newPolygon, 2)),
          x_max |-> MathMin(Num(currentImage.width), maxOf(newPolygon, 1)),
          y_max |-> MathMin(Num(currentImage.height), maxOf(newPolygon, 2)) ]
      s1 == updateObject(setLoading(s, TRUE), obj.id,
                         [polygon |-> newPolygon, bbox |-> newBbox], now)
  IN setLoading(s1, FALSE)

\* A bounds check that looks at x only.
outOfBounds_xOnly(s, pos) ==
  lt(pos.x, Num(0)) \/ lt(Num(s.currentImage[1].width), pos.x)

\* The bounds check of handleMouseDown.
outOfBounds(s, pos) ==
  \/ lt(pos.x, Num(0))
  \/ lt(Num(s.currentImage[1].width), pos.x)
  \/ lt(pos.y, Num(0))
  \/ lt(Num(s.currentImage[1].height), pos.y)

\* handleMouseDown for one pointer event.
mouseDown(button, pointer) ==
    LET pos == getImagePosition(store, pointer)
        outside == store.currentImage = null \/ outOfBounds(store, pos)
        type == IF button = 2 THEN "negative" ELSE store.pointType
        obj == find(store.objects, store.selectedObjectId)
        pointsPos == IF type = "positive"
                     THEN Append(store.tempPoints.pos, pos)
                     ELSE store.tempPoints.pos
        pointsNeg == IF type = "negative"
                     THEN Append(store.tempPoints.neg, pos)
                     ELSE store.tempPoints.neg
    IN
    IF (button = 0 /\ isSpaceHeld) \/ button = 1
    THEN /\ isPanning' = TRUE
         /\ lastPanPoint' = <<pointer>>
         /\ last' = Last("mouseDown", StartedPan, NoRequest, NoResponse)
         /\ UNCHANGED <<store, isSpaceHeld, isDrawingLasso, viewVars, asyncVars,
                        ghostVars, nextId, nMut>>
    ELSE IF outside
    THEN /\ last' = LastPress(pointer, NoRequest)
         /\ UNCHANGED <<store, canvasVars, asyncVars, ghostVars, nextId, nMut>>
    ELSE IF store.toolMode = "bbox"
    THEN /\ store' = setTempBbox(store, <<[x_min |-> pos.x, y_min |-> pos.y,
                                          x_max |-> pos.x, y_max |-> pos.y]>>)
         /\ last' = LastPress(pointer, NoRequest)
         /\ UNCHANGED <<canvasVars, asyncVars, ghostVars, nextId, nMut>>
    ELSE IF store.toolMode = "point" /\ store.selectedObjectId # null
    THEN /\ Len(store.tempPoints.pos) + Len(store.tempPoints.neg) < MaxTempPoints
         /\ IF obj # null /\ store.sessionId # null
            THEN LET req == pointsRequest(store, obj[1], pointsPos, pointsNeg,
                                           nextSeq + 1)
                 IN /\ canIssue
                    /\ store' = setLoading(addTempPoint(store, pos, type), TRUE)
                    /\ inflight' = inflight \cup {req}
                    /\ nextSeq' = nextSeq + 1
                    /\ last' = LastPress(pointer, req)
                    /\ UNCHANGED <<canvasVars, loads, ghostVars, saves, resolved,
                                   nextId, nMut>>
            ELSE /\ store' = addTempPoint(store, pos, type)
                 /\ last' = LastPress(pointer, NoRequest)
                 /\ UNCHANGED <<canvasVars, asyncVars, ghostVars, nextId, nMut>>
    ELSE IF canStartLasso(store)
    THEN /\ store' = addLassoPoint(clearLassoPoints(store), pos)
         /\ isDrawingLasso' = TRUE
         /\ last' = LastPress(pointer, NoRequest)
         /\ UNCHANGED <<isPanning, lastPanPoint, isSpaceHeld, viewVars, asyncVars,
                        ghostVars, nextId, nMut>>
    ELSE /\ last' = LastPress(pointer, NoRequest)
         /\ UNCHANGED <<store, canvasVars, asyncVars, ghostVars, nextId, nMut>>

\* A press of the primary button.
handleMouseDown ==
  \E button \in Buttons, pointer \in Pointers : mouseDown(button, pointer)

\* A press of the middle button.
MiddleMouseDown ==
  \E pointer \in Pointers : mouseDown(1, pointer)

handleMouseMove ==
  \E pointer \in Pointers :
    LET pos == getImagePosition(store, pointer) IN
    IF isPanning /\ lastPanPoint # null
    THEN LET dx == pointer.x - lastPanPoint[1].x
             dy == pointer.y - lastPanPoint[1].y
             position == Pt(plus(store.position.x, Num(dx)),
                            plus(store.position.y, Num(dy)))
         IN /\ le(MathAbs(position.x), Num(MaxPan))
            /\ le(MathAbs(position.y), Num(MaxPan))
            /\ store' = setPosition(store, position)
            /\ lastPanPoint' = <<pointer>>
            /\ last' = Op("mouseMove")
            /\ UNCHANGED <<isPanning, isSpaceHeld, isDrawingLasso, viewVars, asyncVars,
                           ghostVars, nextId, nMut>>
    ELSE IF store.toolMode = "bbox" /\ store.tempBbox # null
    THEN /\ store' = setTempBbox(store,
                        <<[store.tempBbox[1] EXCEPT !.x_max = pos.x,
                                                    !.y_max = pos.y]>>)
         /\ last' = Op("mouseMove")
         /\ UNCHANGED <<canvasVars, asyncVars, ghostVars, nextId, nMut>>
    ELSE IF /\ store.toolMode = "lasso" /\ isDrawingLasso
            /\ store.currentImage # null /\ withinImage(store, pos)
    THEN /\ Len(store.lassoPoints) < MaxLassoPoints
         /\ store' = addLassoPoint(store, pos)
         /\ last' = Op("mouseMove")
         /\ UNCHANGED <<canvasVars, asyncVars, ghostVars, nextId, nMut>>
    ELSE /\ last' = Op("mouseMove")
         /\ UNCHANGED <<store, canvasVars, asyncVars, ghostVars, nextId, nMut>>

\* handleMouseUp up to the await of createObjectWithPrediction; the rest of
\* the handler (setTempBbox(null)) runs when the call settles.  The await
\* of applyLassoMask, which awaits nothing itself, resumes before any other
\* event is handled.
handleMouseUp ==
  IF isPanning
  THEN /\ isPanning' = FALSE
       /\ lastPanPoint' = null
       /\ last' = Op("mouseUp")
       /\ UNCHANGED <<store, isSpaceHeld, isDrawingLasso, viewVars, asyncVars,
                      ghostVars, nextId, nMut>>
  ELSE IF /\ store.toolMode = "bbox" /\ store.tempBbox # null
          /\ store.currentImage # null /\ store.sessionId # null
  THEN LET bbox == normalizeBbox(store.tempBbox[1])
           req == boxRequest(store, bbox, nextSeq + 1)
       IN IF bigEnough(bbox)
          THEN /\ canIssue
               /\ store' = setLoading(store, TRUE)
               /\ inflight' = inflight \cup {req}
               /\ nextSeq' = nextSeq + 1
               /\ last' = Last("mouseUp", 0, req, NoResponse)
               /\ UNCHANGED <<canvasVars, loads, ghostVars, saves, resolved,
                              nextId, nMut>>
          ELSE /\ store' = setTempBbox(store, null)
               /\ last' = Op("mouseUp")
               /\ UNCHANGED <<canvasVars, asyncVars, ghostVars, nextId, nMut>>
  ELSE IF /\ store.toolMode = "lasso" /\ isDrawingLasso
          /\ enoughPoints(store.lassoPoints)
  THEN LET selectedObj == find(store.objects, store.selectedObjectId) IN
       IF selectedObj # null /\ store.sessionId # null
                             /\ store.currentImage # null
       THEN \E clip \in ClipOutcomes :
              /\ nMut < MaxMutations
              /\ store' = clearLassoPoints(
                             applyLassoMask(store, selectedObj[1],
                                            store.lassoPoints, store.lassoMode,
                                            clip, nMut))
              /\ isDrawingLasso' = FALSE
              /\ nMut' = nMut + 1
              /\ last' = LastCall("lassoEdit",
                                  clipCall(selectedObj[1], store.lassoPoints,
                                           store.lassoMode, clip))
              /\ UNCHANGED <<isPanning, lastPanPoint, isSpaceHeld, viewVars, asyncVars,
                             ghostVars, nextId>>
       ELSE /\ store' = clearLassoPoints(store)
            /\ isDrawingLasso' = FALSE
            /\ last' = Op("mouseUp")
            /\ UNCHANGED <<isPanning, lastPanPoint, isSpaceHeld, viewVars, asyncVars,
                           ghostVars, nextId, nMut>>
  ELSE IF store.toolMode = "lasso" /\ isDrawingLasso
  THEN /\ store' = clearLassoPoints(store)
       /\ isDrawingLasso' = FALSE
       /\ last' = Op("mouseUp")
       /\ UNCHANGED <<isPanning, lastPanPoint, isSpaceHeld, viewVars, asyncVars,
                      ghostVars, nextId, nMut>>
  ELSE /\ last' = Op("mouseUp")
       /\ UNCHANGED <<store, canvasVars, asyncVars, ghostVars, nextId, nMut>>

----------------------------------------------------------------------------
(* Viewport: image load, container resize, wheel zoom, display settings *)

\* useImage delivers the current image: the fit effect runs.
ImageLoaded ==
  /\ store.currentImage # null
  /\ image = null
  /\ image' = <<store.currentImage[1].id>>
  /\ store' = fitImage(store, containerSize)
  /\ last' = Op("fit")
  /\ UNCHANGED <<isPanning, lastPanPoint, isSpaceHeld, isDrawingLasso,
                 containerSize, nZoom, asyncVars, ghostVars, nextId, nMut>>

\* The window resize handler, and the fit effect that follows the change of
\* containerSize when an image is loaded.
Resize ==
  \E size \in ContainerSizes :
    /\ size # containerSize
    /\ containerSize' = size
    /\ IF image # null /\ store.currentImage # null
       THEN /\ store' = fitImage(store, size)
            /\ last' = Op("fit")
       ELSE /\ store' = store
            /\ last' = Op("resize")
    /\ UNCHANGED <<isPanning, lastPanPoint, isSpaceHeld, isDrawingLasso,
                   image, nZoom, asyncVars, ghostVars, nextId, nMut>>

handleWheel ==
  \E deltaY \in WheelDeltas, pointer \in Pointers :
    /\ nZoom < MaxZoom
    /\ store' = wheelZoom(store, deltaY, pointer)
    /\ nZoom' = nZoom + 1
    /\ last' = LastWheel("wheel", deltaY, pointer)
    /\ UNCHANGED <<isPanning, lastPanPoint, isSpaceHeld, isDrawingLasso,
                   containerSize, image, asyncVars, ghostVars, nextId, nMut>>

\* A call of setMaskOpacity: the mask opacity slider's onChange, or any other
\* caller of the store operation.
SetMaskOpacity ==
  \E value \in SliderValues :
    /\ store' = setMaskOpacity(store, Frac(value, 100))
    /\ last' = Last("setMaskOpacity", value, NoRequest, NoResponse)
    /\ UNCHANGED <<canvasVars, asyncVars, ghostVars, nextId, nMut>>

\* A call of setSimplificationEpsilon: the polygon detail slider's onChange,
\* or any other caller of the store operation.
SetSimplificationEpsilon ==
  \E value \in SliderValues :
    /\ store' = setSimplificationEpsilon(store, Frac(value, 10))
    /\ last' = Last("setSimplificationEpsilon", value, NoRequest, NoResponse)
    /\ UNCHANGED <<canvasVars, asyncVars, ghostVars, nextId, nMut>>

----------------------------------------------------------------------------
(* Saving the labels of the current image *)

\* handleSave after a successful await.
saveResolved(s) == setSaving(setHasUnsavedChanges(s, FALSE), FALSE)

\* handleSave that clears the unsaved-changes flag on failure too.
saveRejected_clearsFlag(s) == setSaving(setHasUnsavedChanges(s, FALSE), FALSE)

\* handleSave when saveLabels throws.
saveRejected(s) == setSaving(s, FALSE)

\* handleSave that also sends an empty collection.
HandleSave_savesEmpty ==
  IF store.sessionId = null \/ store.currentImage = null
  THEN /\ last' = Op("handleSave")
       /\ UNCHANGED <<store, canvasVars, asyncVars, ghostVars, nextId, nMut>>
  ELSE /\ Len(saves) < MaxSaves
       /\ store' = setSaving(store, TRUE)
       /\ saves' = Append(saves, [image_id |-> store.currentImage[1].id,
                                  objects |-> store.objects])
       /\ last' = Op("handleSave")
       /\ UNCHANGED <<canvasVars, loads, inflight, nextSeq, resolved,
                      ghostVars, nextId, nMut>>

\* handleSave up to its await (the Save button of the toolbar).
HandleSave ==
  IF store.sessionId = null \/ store.currentImage = null
                            \/ Len(store.objects) = 0
  THEN /\ last' = Op("handleSave")
       /\ UNCHANGED <<store, canvasVars, asyncVars, ghostVars, nextId, nMut>>
  ELSE /\ Len(saves) < MaxSaves
       /\ store' = setSaving(store, TRUE)
       /\ saves' = Append(saves, [image_id |-> store.currentImage[1].id,
                                  objects |-> store.objects])
       /\ last' = Op("handleSave")
       /\ UNCHANGED <<canvasVars, loads, inflight, nextSeq, resolved, ghostVars,
                      nextId, nMut>>

\* The sequence without its i-th element.
without(seq, i) == SubSeq(seq, 1, i - 1) \o SubSeq(seq, i + 1, Len(seq))

SaveResolved ==
  \E i \in 1..Len(saves) :
    /\ store' = saveResolved(store)
    /\ saves' = without(saves, i)
    /\ last' = Op("saveResolved")
    /\ UNCHANGED <<canvasVars, loads, inflight, nextSeq, resolved, ghostVars,
                   nextId, nMut>>

SaveRejected ==
  \E i \in 1..Len(saves) :
    /\ store' = saveRejected(store)
    /\ saves' = without(saves, i)
    /\ last' = Op("saveRejected")
    /\ UNCHANGED <<canvasVars, loads, inflight, nextSeq, resolved, ghostVars,
                   nextId, nMut>>

----------------------------------------------------------------------------
(* Responses of the segmentation oracle *)

newObject(id, bbox, response) ==
  [ id |-> id, class_id |-> 0, bbox |-> bbox,
    points_pos |-> <<>>, points_neg |-> <<>>,
    polygon |-> response.polygon, score |-> response.score ]

\* createObjectWithPrediction after a successful await, then the rest of
\* handleMouseUp.
boxResolved(s, req, response, id, now) ==
  LET s1 == addObject(s, newObject(id, req.bbox[1], response), now)
      s2 == clearTempPoints(clearLassoPoints(s1))
      s3 == setLoading(s2, FALSE)
  IN setTempBbox(s3, null)

\* createObjectWithPrediction that leaves the loading flag set on failure.
boxRejected_keepsLoading(s) == setTempBbox(s, null)

\* createObjectWithPrediction when predictMask throws, then the rest of
\* handleMouseUp.
boxRejected(s) == setTempBbox(setLoading(s, FALSE), null)

\* runPrediction after a successful await.
pointsResolved(s, req, response, now) ==
  LET s1 == updateObject(s, req.objId,
                         [ points_pos |-> req.pointsPos,
                           points_neg |-> req.pointsNeg,
                           polygon |-> response.polygon,
                           score |-> response.score ], now)
  IN setLoading(s1, FALSE)

\* runPrediction when predictMask throws.
pointsRejected(s) == setLoading(s, FALSE)

ResolveBox ==
  \E req \in inflight, response \in OracleResponses :
    /\ req.kind = "box"
    /\ nMut < MaxMutations
    /\ nextId < MaxObjects
    /\ store' = boxResolved(store, req, response, generateId(nextId + 1), nMut)
    /\ inflight' = inflight \ {req}
    /\ nextId' = nextId + 1
    /\ nMut' = nMut + 1
    /\ last' = Last("resolveBox", 0, req, response)
    /\ UNCHANGED <<canvasVars, loads, ghostVars, saves, nextSeq, resolved>>

RejectBox ==
  \E req \in inflight :
    /\ req.kind = "box"
    /\ store' = boxRejected(store)
    /\ inflight' = inflight \ {req}
    /\ last' = Last("rejectBox", 0, req, NoResponse)
    /\ UNCHANGED <<canvasVars, loads, ghostVars, saves, nextSeq, resolved, nextId, nMut>>

ResolvePoints ==
  \E req \in inflight, response \in OracleResponses :
    /\ req.kind = "points"
    /\ nMut < MaxMutations
    /\ store' = pointsResolved(store, req, response, nMut)
    /\ inflight' = inflight \ {req}
    /\ resolved' = resolved \cup {[ seq |-> req.seq, objId |-> req.objId,
                                    pointsPos |-> req.pointsPos,
                                    pointsNeg |-> req.pointsNeg,
                                    polygon |-> response.polygon,
                                    score |-> response.score ]}
    /\ nMut' = nMut + 1
    /\ last' = Last("resolvePoints", 0, req, response)
    /\ UNCHANGED <<canvasVars, loads, ghostVars, saves, nextSeq, nextId>>

RejectPoints ==
  \E req \in inflight :
    /\ req.kind = "points"
    /\ store' = pointsRejected(store)
    /\ inflight' = inflight \ {req}
    /\ last' = Last("rejectPoints", 0, req, NoResponse)
    /\ UNCHANGED <<canvasVars, loads, ghostVars, saves, nextSeq, resolved, nextId, nMut>>

----------------------------------------------------------------------------

Next ==
  \/ SetSession
  \/ SetCurrentImageIndex
  \/ SelectObject
  \/ SetToolMode
  \/ DeleteObject
  \/ Undo
  \/ Redo
  \/ handleMouseDown
  \/ handleMouseMove
  \/ handleMouseUp
  \/ ResolveBox
  \/ RejectBox
  \/ ResolvePoints
  \/ RejectPoints

Spec == Init /\ [][Next]_vars

----------------------------------------------------------------------------
(* History specification: the store's operations called directly, one      *)
(* mutation after another, with undo and redo in between.  The mutation    *)
(* made at each step is fixed by the state: add when the collection is     *)
(* empty, otherwise a class change or a deletion of the first object.      *)

HistBox == [x_min |-> Num(0), y_min |-> Num(0),
            x_max |-> Num(ImageWidth), y_max |-> Num(ImageHeight)]

HistResponse == CHOOSE r \in OracleResponses : \A q \in OracleResponses : r.score >= q.score

\* The entries a push cuts off: those beyond the cursor.
cutOff(s) == {s.history[j] : j \in (s.historyIndex + 2)..Len(s.history)}

HistPushed ==
  /\ snaps' = Append(snaps, [objects |-> store.objects, timestamp |-> nMut])
  /\ discarded' = discarded \cup cutOff(store)
  /\ nMut' = nMut + 1

HistAddObject ==
  /\ nMut < MaxPush
  /\ store.objects = <<>>
  /\ store' = addObject(store, newObject(generateId(nextId + 1), HistBox,
                                         HistResponse), nMut)
  /\ nextId' = nextId + 1
  /\ HistPushed
  /\ last' = Op("addObject")
  /\ UNCHANGED <<canvasVars, asyncVars, nUndo>>

HistUpdateObject ==
  /\ nMut < MaxPush
  /\ store.objects # <<>>
  /\ nMut % 3 # 2
  /\ store' = updateObject(store, store.objects[1].id,
                           [class_id |-> nMut % 2], nMut)
  /\ HistPushed
  /\ last' = Op("updateObject")
  /\ UNCHANGED <<canvasVars, asyncVars, nUndo, nextId>>

HistDeleteObject ==
  /\ nMut < MaxPush
  /\ store.objects # <<>>
  /\ nMut % 3 = 2
  /\ store' = deleteObject(store, store.objects[1].id, nMut)
  /\ HistPushed
  /\ last' = Op("deleteObject")
  /\ UNCHANGED <<canvasVars, asyncVars, nUndo, nextId>>

HistUndo ==
  /\ nUndo < MaxUndo
  /\ store' = undo(store)
  /\ nUndo' = nUndo + 1
  /\ last' = Op("undo")
  /\ UNCHANGED <<canvasVars, asyncVars, snaps, discarded, nextId, nMut>>

HistRedo ==
  /\ nUndo < MaxUndo
  /\ store' = redo(store)
  /\ nUndo' = nUndo + 1
  /\ last' = Op("redo")
  /\ UNCHANGED <<canvasVars, asyncVars, snaps, discarded, nextId, nMut>>

HistNext ==
  \/ HistAddObject
  \/ HistUpdateObject
  \/ HistDeleteObject
  \/ HistUndo
  \/ HistRedo

HistSpec == Init /\ [][HistNext]_vars

----------------------------------------------------------------------------
(* Point refinement specification: it starts in the state the program is   *)
(* in after setup, one box gesture over the whole first image, its         *)
(* response, and the switch to the point tool.                             *)

PointStore ==
  LET s0 == setSession(initialState, <<"session">>, Images)
      s1 == setLoading(setTempBbox(s0, <<HistBox>>), TRUE)
      s2 == boxResolved(s1, boxRequest(s0, HistBox, 0), HistResponse,
                        generateId(1), -1)
  IN setToolMode(s2, "point")

PointInit ==
  /\ store = PointStore
  /\ isPanning = FALSE
  /\ lastPanPoint = null
  /\ isSpaceHeld = FALSE
  /\ isDrawingLasso = FALSE
  /\ containerSize = InitialSize
  /\ image = null
  /\ nZoom = 0
  /\ inflight = {}
  /\ saves = <<>>
  /\ loads = <<>>
  /\ nextId = 1
  /\ nextSeq = 0
  /\ nMut = 0
  /\ snaps = <<>>
  /\ discarded = {}
  /\ nUndo = 0
  /\ resolved = {}
  /\ last = InitLast(PointStore)

PointNext ==
  \/ handleMouseDown
  \/ ResolvePoints
  \/ RejectPoints

PointSpec == PointInit /\ [][PointNext]_vars

----------------------------------------------------------------------------
(* Gesture specification: box, lasso and pan gestures with the keyboard    *)
(* shortcuts of the tools.  It starts in the state the program is in after *)
(* setup, one box gesture over the whole first image and its response.     *)

GestureStore ==
  LET s0 == setSession(initialState, <<"session">>, Images)
      s1 == setLoading(setTempBbox(s0, <<HistBox>>), TRUE)
  IN boxResolved(s1, boxRequest(s0, HistBox, 0), HistResponse,
                 generateId(1), -1)

GestureInit ==
  /\ store = GestureStore
  /\ isPanning = FALSE
  /\ lastPanPoint = null
  /\ isSpaceHeld = FALSE
  /\ isDrawingLasso = FALSE
  /\ containerSize = InitialSize
  /\ image = null
  /\ nZoom = 0
  /\ inflight = {}
  /\ saves = <<>>
  /\ loads = <<>>
  /\ nextId = 1
  /\ nextSeq = 0
  /\ nMut = 0
  /\ snaps = <<>>
  /\ discarded = {}
  /\ nUndo = 0
  /\ resolved = {}
  /\ last = InitLast(GestureStore)

GestureNext ==
  \/ ToolShortcut
  \/ SpaceDown
  \/ SpaceUp
  \/ handleMouseDown
  \/ MiddleMouseDown
  \/ handleMouseMove
  \/ handleMouseUp
  \/ RejectBox

GestureSpec == GestureInit /\ [][GestureNext]_vars

----------------------------------------------------------------------------
(* Press specification: presses, moves and releases in one tool mode.  It  *)
(* starts in the state of the gesture specification after one of the tools *)
(* was chosen; requests only fail.                                         *)

PressStores ==
  { setToolMode(GestureStore, mode) : mode \in ToolModes \cup {"lasso"} }

PressInit ==
  /\ store \in PressStores
  /\ isPanning = FALSE
  /\ lastPanPoint = null
  /\ isSpaceHeld = FALSE
  /\ isDrawingLasso = FALSE
  /\ containerSize = InitialSize
  /\ image = null
  /\ nZoom = 0
  /\ inflight = {}
  /\ saves = <<>>
  /\ loads = <<>>
  /\ nextId = 1
  /\ nextSeq = 0
  /\ nMut = 0
  /\ snaps = <<>>
  /\ discarded = {}
  /\ nUndo = 0
  /\ resolved = {}
  /\ last = InitLast(store)

PressNext ==
  \/ handleMouseDown
  \/ handleMouseMove
  \/ handleMouseUp
  \/ RejectBox
  \/ RejectPoints

PressSpec == PressInit /\ [][PressNext]_vars

----------------------------------------------------------------------------
(* Lasso specification: strokes of the lasso tool on the object of the     *)
(* gesture specification's initial state, with the lasso tool active.      *)

LassoStore == setToolMode(GestureStore, "lasso")

LassoInit ==
  /\ store = LassoStore
  /\ isPanning = FALSE
  /\ lastPanPoint = null
  /\ isSpaceHeld = FALSE
  /\ isDrawingLasso = FALSE
  /\ containerSize = InitialSize
  /\ image = null
  /\ nZoom = 0
  /\ inflight = {}
  /\ saves = <<>>
  /\ loads = <<>>
  /\ nextId = 1
  /\ nextSeq = 0
  /\ nMut = 0
  /\ snaps = <<>>
  /\ discarded = {}
  /\ nUndo = 0
  /\ resolved = {}
  /\ last = InitLast(LassoStore)

LassoNext ==
  \/ LassoToolKeys
  \/ SetLassoMode
  \/ DeleteObject
  \/ handleMouseDown
  \/ handleMouseMove
  \/ handleMouseUp

LassoSpec == LassoInit /\ [][LassoNext]_vars

----------------------------------------------------------------------------
(* Save specification: saves of the labels of the gesture specification's  *)
(* initial state, with deletions, undo, redo and navigation in between.    *)

SaveNext ==
  \/ HandleSave
  \/ SaveResolved
  \/ SaveRejected
  \/ DeleteObject
  \/ Undo
  \/ Redo
  \/ SetCurrentImageIndex

SaveSpec == GestureInit /\ [][SaveNext]_vars

----------------------------------------------------------------------------
(* Viewport specification: the canvas with a session, from construction.   *)

ViewNext ==
  \/ SetSession
  \/ ImageLoaded
  \/ Resize
  \/ handleWheel
  \/ SetMaskOpacity
  \/ SetSimplificationEpsilon

ViewSpec == Init /\ [][ViewNext]_vars

----------------------------------------------------------------------------
(* Keyboard shortcuts that call handlers of the App component.  The effect *)
(* that registers handleKeyDown has an empty dependency list: it runs once, *)
(* after the first render, and the handleSave, handleNextImage and          *)
(* handlePrevImage that handleKeyDown calls are those of that render.       *)

\* The store values the first render of App read from useStore(): the
\* store as constructed.
firstRender == initialState

\* handleSave up to its await, as created by a render that read the store
\* values c.
handleSave(c, op) ==
  IF c.sessionId = null \/ c.currentImage = null \/ Len(c.objects) = 0
  THEN /\ last' = Op(op)
       /\ UNCHANGED <<store, canvasVars, asyncVars, ghostVars, nextId, nMut>>
  ELSE /\ Len(saves) < MaxSaves
       /\ store' = setSaving(store, TRUE)
       /\ saves' = Append(saves, [image_id |-> c.currentImage[1].id,
                                  objects |-> c.objects])
       /\ last' = Op(op)
       /\ UNCHANGED <<canvasVars, loads, inflight, nextSeq, resolved, ghostVars,
                      nextId, nMut>>

\* handleNextImage (step 1) and handlePrevImage (step -1), as created by a
\* render that read the store values c; confirmed is the answer to the
\* confirm dialog.
handleStepImage(c, step, confirmed, op) ==
  IF c.hasUnsavedChanges /\ ~confirmed
  THEN /\ last' = Last(op, step, NoRequest, NoResponse)
       /\ UNCHANGED <<store, canvasVars, asyncVars, ghostVars, nextId, nMut>>
  ELSE IF \/ step = 1 /\ c.currentImageIndex < Len(c.images) - 1
          \/ step = -1 /\ c.currentImageIndex > 0
  THEN /\ store' = setCurrentImageIndex(store, c.currentImageIndex + step)
       /\ image' = useImage(store')
       /\ last' = Last(op, step, NoRequest, NoResponse)
       /\ UNCHANGED <<isPanning, lastPanPoint, isSpaceHeld, isDrawingLasso,
                      containerSize, nZoom, asyncVars, ghostVars, nextId, nMut>>
  ELSE /\ last' = Last(op, step, NoRequest, NoResponse)
       /\ UNCHANGED <<store, canvasVars, asyncVars, ghostVars, nextId, nMut>>

\* The Prev and Next buttons of the toolbar: the handlers of the latest
\* render.
StepImageButton ==
  \E step \in {-1, 1}, confirmed \in BOOLEAN :
    handleStepImage(store, step, confirmed, "stepImage")

\* The keys N (step 1) and Shift+N (step -1).
KeyN ==
  \E step \in {-1, 1}, confirmed \in BOOLEAN :
    handleStepImage(firstRender, step, confirmed, "keyN")

\* The key Ctrl+S.
KeyCtrlS == handleSave(firstRender, "keyCtrlS")

KeyNext ==
  \/ KeyN
  \/ KeyCtrlS
  \/ StepImageButton
  \/ HandleSave
  \/ SaveResolved
  \/ SaveRejected
  \/ DeleteObject
  \/ Undo

KeySpec == GestureInit /\ [][KeyNext]_vars

----------------------------------------------------------------------------
(* Area specification: polygonArea called on the rings over a small grid   *)
(* of vertices, and on the reversal of a ring whose area was computed.     *)

Rings ==
  UNION { [1..n -> {Vtx(x, y) : x \in 0..MaxCoord, y \in 0..MaxCoord}] :
            n \in 3..MaxRingLen }

Reverse(ring) == [i \in 1..Len(ring) |-> ring[Len(ring) + 1 - i]]

\* The record of a call of polygonArea: its argument and its result.
areaCall(ring) ==
  [ fn |-> "polygonArea", subject |-> ring, clipping |-> <<>>,
    outcome |-> [throws |-> FALSE, result |-> polygonArea(ring)] ]

AreaInit ==
  /\ store = initialState
  /\ isPanning = FALSE
  /\ lastPanPoint = null
  /\ isSpaceHeld = FALSE
  /\ isDrawingLasso = FALSE
  /\ containerSize = InitialSize
  /\ image = null
  /\ nZoom = 0
  /\ inflight = {}
  /\ saves = <<>>
  /\ loads = <<>>
  /\ nextId = 0
  /\ nextSeq = 0
  /\ nMut = 0
  /\ snaps = <<>>
  /\ discarded = {}
  /\ nUndo = 0
  /\ resolved = {}
  /\ \E ring \in Rings :
       last = [InitLast(initialState) EXCEPT !.call.subject = ring]

AreaOfRing ==
  /\ last.op = "init"
  /\ last' = LastCall("polygonArea", areaCall(last.call.subject))
  /\ UNCHANGED <<store, canvasVars, asyncVars, ghostVars, nextId, nMut>>

AreaOfReversed ==
  /\ last.op = "polygonArea"
  /\ last' = LastCall("polygonArea", areaCall(Reverse(last.call.subject)))
  /\ UNCHANGED <<store, canvasVars, asyncVars, ghostVars, nextId, nMut>>

AreaNext == AreaOfRing \/ AreaOfReversed

AreaSpec == AreaInit /\ [][AreaNext]_vars

----------------------------------------------------------------------------
(* Label loading specification: setup, image selection and the effect of   *)
(* App that loads the labels of the current image, with objects added and  *)
(* load responses arriving in any order in between.                        *)

MaxLoads == 2

\* An object of a label file of the server for the image with this number.
storedObject(n) == newObject(<<"stored", n>>, HistBox, HistResponse)

\* Responses of loadLabels for the image with this number: no label file,
\* an empty label file, a label file with one object.
LabelResponses(n) ==
  { [exists |-> FALSE, objects |-> <<>>],
    [exists |-> TRUE, objects |-> <<>>],
    [exists |-> TRUE, objects |-> <<storedObject(n)>>] }

setObjects(s, objects) ==
  [s EXCEPT !.objects = objects, !.hasUnsavedChanges = FALSE]

\* The dependency list of the label loading effect.
labelDeps(s) ==
  <<s.sessionId,
    IF s.currentImage = null THEN null ELSE <<s.currentImage[1].id>>>>

\* The label loading effect after the render in which the store changed
\* from s to t: the loadLabels calls pending afterwards.
loadImageLabels(s, t) ==
  IF labelDeps(t) = labelDeps(s) \/ t.sessionId = null
                                 \/ t.currentImage = null
  THEN loads
  ELSE Append(loads, [image_id |-> t.currentImage[1].id])

\* loadImageLabels after a successful await.
labelsResolved(s, response) ==
  IF response.exists /\ Len(response.objects) > 0
  THEN setObjects(s, response.objects)
  ELSE s

\* SetupPanel: initSession succeeded; the effect runs after the render.
SetupComplete ==
  /\ store.sessionId = null
  /\ store' = setSession(store, <<"session">>, Images)
  /\ loads' = loadImageLabels(store, store')
  /\ image' = useImage(store')
  /\ last' = Op("setSession")
  /\ UNCHANGED <<isPanning, lastPanPoint, isSpaceHeld, isDrawingLasso,
                 containerSize, nZoom, inflight, saves, nextSeq, resolved,
                 ghostVars, nextId, nMut>>

\* A click on an entry of the image list; the effect runs after the render.
SelectImage ==
  \E index \in -1..Len(store.images) :
    /\ Len(loads) < MaxLoads
    /\ store' = setCurrentImageIndex(store, index)
    /\ loads' = loadImageLabels(store, store')
    /\ image' = useImage(store')
    /\ last' = Last("setCurrentImageIndex", index, NoRequest, NoResponse)
    /\ UNCHANGED <<isPanning, lastPanPoint, isSpaceHeld, isDrawingLasso,
                   containerSize, nZoom, inflight, saves, nextSeq, resolved,
                   ghostVars, nextId, nMut>>

\* An object added to the current image.
LoadAddObject ==
  /\ nMut < MaxMutations
  /\ store.currentImage # null
  /\ HistAddObject

\* A loadLabels call resolves; the step records the number of its image.
LabelsResolved ==
  \E i \in 1..Len(loads) :
    \E response \in LabelResponses(loads[i].image_id[2]) :
      /\ store' = labelsResolved(store, response)
      /\ loads' = without(loads, i)
      /\ last' = Last("labelsResolved", loads[i].image_id[2], NoRequest,
                      NoResponse)
      /\ UNCHANGED <<canvasVars, inflight, saves, nextSeq, resolved,
                     ghostVars, nextId, nMut>>

\* A loadLabels call throws: the error is logged.
LabelsRejected ==
  \E i \in 1..Len(loads) :
    /\ loads' = without(loads, i)
    /\ last' = Last("labelsRejected", loads[i].image_id[2], NoRequest,
                    NoResponse)
    /\ UNCHANGED <<store, canvasVars, inflight, saves, nextSeq, resolved,
                   ghostVars, nextId, nMut>>

LoadNext ==
  \/ SetupComplete
  \/ SelectImage
  \/ LoadAddObject
  \/ LabelsResolved
  \/ LabelsRejected

LoadSpec == Init /\ [][LoadNext]_vars

----------------------------------------------------------------------------
(* History cursor specification: it starts in the state the history       *)
(* specification is in after MaxHistory - 1 mutations, one entry short of  *)
(* the limit, and goes on with mutations, undo and redo, with setup, image *)
(* selection and reset of the store in between.                            *)

\* One mutation of the history specification, applied to the store, the id
\* counter, the mutation counter and the entries pushed so far.
histStep(c) ==
  LET s == c.store
      now == c.nMut
      pushed == Append(c.snaps, [objects |-> s.objects, timestamp |-> now])
  IN IF s.objects = <<>>
     THEN [ store |-> addObject(s, newObject(generateId(c.nextId + 1),
                                             HistBox, HistResponse), now),
            nextId |-> c.nextId + 1, nMut |-> now + 1, snaps |-> pushed ]
     ELSE IF now % 3 # 2
     THEN [ store |-> updateObject(s, s.objects[1].id,
                                   [class_id |-> now % 2], now),
            nextId |-> c.nextId, nMut |-> now + 1, snaps |-> pushed ]
     ELSE [ store |-> deleteObject(s, s.objects[1].id, now),
            nextId |-> c.nextId, nMut |-> now + 1, snaps |-> pushed ]

RECURSIVE histRun(_, _)
histRun(c, n) ==
  IF n = 0 \/ c.nMut < 0 THEN c ELSE histRun(histStep(c), n - 1)

IndexStart ==
  histRun([store |-> initialState, nextId |-> 0, nMut |-> 0, snaps |-> <<>>],
          MaxHistory - 1)

IndexInit ==
  /\ store = IndexStart.store
  /\ isPanning = FALSE
  /\ lastPanPoint = null
  /\ isSpaceHeld = FALSE
  /\ isDrawingLasso = FALSE
  /\ containerSize = InitialSize
  /\ image = null
  /\ nZoom = 0
  /\ inflight = {}
  /\ saves = <<>>
  /\ loads = <<>>
  /\ nextId = IndexStart.nextId
  /\ nextSeq = 0
  /\ nMut = IndexStart.nMut
  /\ snaps = IndexStart.snaps
  /\ discarded = {}
  /\ nUndo = 0
  /\ resolved = {}
  /\ last = InitLast(IndexStart.store)

\* reset that keeps the history.
reset_keepsHistory(s) ==
  [initialState EXCEPT !.history = s.history]

reset(s) ==
  initialState

Reset ==
  /\ store' = reset(store)
  /\ image' = useImage(store')
  /\ last' = Op("reset")
  /\ UNCHANGED <<isPanning, lastPanPoint, isSpaceHeld, isDrawingLasso,
                 containerSize, nZoom, asyncVars, ghostVars, nextId, nMut>>

IndexAddObject ==
  /\ nMut < MaxHistory + MaxMutations
  /\ HistAddObject

IndexUpdateObject ==
  /\ nMut < MaxHistory + MaxMutations
  /\ HistUpdateObject

IndexDeleteObject ==
  /\ nMut < MaxHistory + MaxMutations
  /\ HistDeleteObject

IndexNext ==
  \/ SetSession
  \/ SetCurrentImageIndex
  \/ IndexAddObject
  \/ IndexUpdateObject
  \/ IndexDeleteObject
  \/ HistUndo
  \/ HistRedo
  \/ Reset

IndexSpec == IndexInit /\ [][IndexNext]_vars

----------------------------------------------------------------------------
(* Properties *)

\* C1: when two point-refinement requests for the same object have both
\* resolved, the object's polygon, points_pos, points_neg and score are
\* those of the later-sent request, also when its response arrived first.
C1_LaterRequestWins ==
  \A e1, e2 \in resolved :
    ( /\ last.op = "resolvePoints"
      /\ e1.objId = e2.objId /\ e1.seq < e2.seq
      /\ \A e \in resolved : e.objId = e2.objId => e.seq <= e2.seq )
    => LET obj == find(store.objects, e2.objId)
       IN obj # null =>
            /\ obj[1].polygon = e2.polygon
            /\ obj[1].points_pos = e2.pointsPos
            /\ obj[1].points_neg = e2.pointsNeg
            /\ obj[1].score = e2.score

\* C2: a box-prediction response that resolves after the active image has
\* changed adds no object, does not change the selection and pushes no
\* history entry.
C2_StaleImageResponseDiscarded ==
  [][ ( /\ last'.op = "resolveBox"
        /\ store.currentImage # null
        /\ last'.req.image # <<store.currentImage[1].id>> )
      => /\ store'.objects = store.objects
         /\ store'.selectedObjectId = store.selectedObjectId
         /\ store'.history = store.history
         /\ store'.historyIndex = store.historyIndex ]_vars

\* C3: after setCurrentImageIndex with a valid index the objects are empty,
\* nothing is selected, the history is empty and its cursor is -1.
C3_SwitchClears ==
  ( /\ last.op = "setCurrentImageIndex"
    /\ last.arg >= 0 /\ last.arg < Len(store.images) )
  => /\ store.objects = <<>>
     /\ store.selectedObjectId = null
     /\ store.history = <<>>
     /\ store.historyIndex = -1

C3_Witness ==
  /\ last.op = "setCurrentImageIndex"
  /\ last.arg >= 0 /\ last.arg < Len(store.images)
  /\ last.pre.objects > 0 /\ last.pre.selected
  /\ last.pre.history > 1 /\ last.pre.historyIndex >= 0

\* C4: a step that calls addObject, updateObject or deleteObject cuts the
\* history at the cursor and appends exactly one entry holding the objects
\* as they were before the step; any other step leaves the history as it
\* was or empties it.
C4_PushBeforeMutation ==
  [][ IF last'.op \in Mutators
      THEN LET kept == SubSeq(store.history, 1, store.historyIndex + 1)
               n == Len(store'.history)
               shift == (Len(kept) + 1) - n
           IN /\ n = Min(Len(kept) + 1, MaxHistory)
              /\ store'.history[n].objects = store.objects
              /\ store'.historyIndex = n - 1
              /\ \A k \in 1..(n - 1) : store'.history[k] = kept[k + shift]
      ELSE \/ store'.history = store.history
           \/ store'.history = <<>> ]_vars

C4_Witness ==
  /\ last.op = "resolvePoints"
  /\ last.pre.history > 0
  /\ find(store.objects, last.req.objId) # null

\* C5: the history never holds more than 50 entries; after n consecutive
\* pushes from an empty history it holds the min(n, 50) most recent entries
\* in order with the cursor on the last one: after 60 pushes, entries
\* 11..60 and historyIndex = 49.
C5_HistoryBound ==
  /\ Len(store.history) <= 50
  /\ nUndo = 0 =>
       LET n == Len(snaps)
           k == Min(n, 50)
       IN /\ store.history = SubSeq(snaps, n - k + 1, n)
          /\ store.historyIndex = k - 1
  /\ (nUndo = 0 /\ Len(snaps) = 60) =>
       /\ Len(store.history) = 50
       /\ store.historyIndex = 49
       /\ store.history[1] = snaps[11]
       /\ store.history[50] = snaps[60]

C5_Witness == nUndo = 0 /\ Len(snaps) = 60 /\ nMut = 60

\* C6: no entry that a push cut off beyond the cursor is in the history
\* afterwards, and after a push the cursor is on the last entry, so that no
\* redo can restore a cut-off entry.
C6_RedoTailDiscarded ==
  /\ \A k \in 1..Len(store.history) : store.history[k] \notin discarded
  /\ last.op \in Mutators => store.historyIndex = Len(store.history) - 1

C6_Witness ==
  /\ discarded # {}
  /\ last.op = "redo"
  /\ store.historyIndex = Len(store.history) - 1

\* C7: undo changes nothing unless historyIndex > 0; otherwise the objects
\* become those of the entry at historyIndex - 1 and historyIndex drops by
\* one.
C7_Undo ==
  [][ last'.op = "undo" =>
        IF store.historyIndex > 0
        THEN /\ store'.objects = store.history[store.historyIndex].objects
             /\ store'.historyIndex = store.historyIndex - 1
        ELSE store' = store ]_vars

C7_Witness ==
  /\ last.op = "undo"
  /\ last.pre.historyIndex > 0
  /\ store.historyIndex = last.pre.historyIndex - 1

\* C8: redo changes nothing unless historyIndex < length - 1; otherwise the
\* objects become those of the entry at historyIndex + 1 and historyIndex
\* grows by one.
C8_Redo ==
  [][ last'.op = "redo" =>
        IF store.historyIndex < Len(store.history) - 1
        THEN /\ store'.objects = store.history[store.historyIndex + 2].objects
             /\ store'.historyIndex = store.historyIndex + 1
        ELSE store' = store ]_vars

C8_Witness ==
  /\ last.op = "redo"
  /\ last.pre.historyIndex < last.pre.history - 1
  /\ store.historyIndex = last.pre.historyIndex + 1

\* C9: the first mutation on an empty history stores the objects as they
\* were at entry 0 and leaves historyIndex = 0, and an undo in that state
\* changes nothing.
C9_FirstUndoIsNoop ==
  [][ /\ (last'.op \in Mutators /\ store.historyIndex = -1) =>
           /\ store'.historyIndex = 0
           /\ Len(store'.history) = 1
           /\ store'.history[1].objects = store.objects
      /\ (last'.op = "undo" /\ store.historyIndex = 0
                            /\ Len(store.history) = 1) =>
           store' = store ]_vars

C9_Witness ==
  /\ last.op = "undo"
  /\ last.pre.historyIndex = 0 /\ last.pre.history = 1
  /\ last.pre.objects > 0
  /\ store.historyIndex = 0

\* The rectangle is narrower or shorter than 10 image-space units.
tooSmall(t) ==
  \/ lt(MathAbs(minus(t.x_max, t.x_min)), Num(10))
  \/ lt(MathAbs(minus(t.y_max, t.y_min)), Num(10))

\* C10: the release of a box gesture whose rectangle is narrower or shorter
\* than 10 units issues no request and leaves objects, selection and
\* history unchanged.
C10_SmallBoxDiscarded ==
  [][ ( /\ last'.op = "mouseUp"
        /\ ~isPanning
        /\ store.toolMode = "bbox"
        /\ store.tempBbox # null
        /\ tooSmall(store.tempBbox[1]) )
      => /\ inflight' = inflight
         /\ nextSeq' = nextSeq
         /\ store'.objects = store.objects
         /\ store'.selectedObjectId = store.selectedObjectId
         /\ store'.history = store.history
         /\ store'.historyIndex = store.historyIndex ]_vars

C10_Witness ==
  /\ last.op = "mouseUp"
  /\ last.pre.tempBbox # null
  /\ tooSmall(last.pre.tempBbox[1])
  /\ lt(Num(10), MathAbs(minus(last.pre.tempBbox[1].y_max,
                               last.pre.tempBbox[1].y_min)))
  /\ store.tempBbox = null
  /\ store.toolMode = "bbox"

\* C11: a step that handles the failure of a segmentation request leaves
\* the objects, the selection and the history as they were, and the loading
\* indicator is off after it.
C11_FailedRequestChangesNothing ==
  [][ last'.op \in {"rejectBox", "rejectPoints"}
      => /\ store'.objects = store.objects
         /\ store'.selectedObjectId = store.selectedObjectId
         /\ store'.history = store.history
         /\ store'.historyIndex = store.historyIndex
         /\ ~store'.isLoading ]_vars

C11_Witness ==
  /\ last.op = "rejectBox"
  /\ last.req.kind = "box"
  /\ last.pre.objects > 0 /\ last.pre.selected /\ last.pre.history > 0
  /\ Len(store.objects) = last.pre.objects
  /\ ~store.isLoading

\* C12: a step that handles the failure of a save request leaves
\* hasUnsavedChanges and the objects as they were, and isSaving is false
\* after it.
C12_FailedSaveKeepsFlag ==
  [][ last'.op = "saveRejected"
      => /\ store'.hasUnsavedChanges = store.hasUnsavedChanges
         /\ store'.objects = store.objects
         /\ ~store'.isSaving ]_vars

C12_Witness ==
  /\ last.op = "saveRejected"
  /\ store.hasUnsavedChanges
  /\ Len(store.objects) > 0
  /\ ~store.isSaving

\* C13: when the boolean clip of a lasso edit throws or yields an empty
\* result, the selected object's polygon after the edit equals its polygon
\* before the edit.
C13_FailedClipKeepsPolygon ==
  [][ ( /\ last'.op = "lassoEdit"
        /\ \/ last'.call.outcome.throws
           \/ last'.call.outcome.result = <<>> )
      => LET before == find(store.objects, store.selectedObjectId)
             after == find(store'.objects, store.selectedObjectId)
         IN /\ before # null /\ after # null
            /\ after[1].polygon = before[1].polygon ]_vars

C13_Witness ==
  /\ last.op = "lassoEdit"
  /\ last.call.outcome.throws
  /\ last.call.fn = "difference"
  /\ Len(last.call.clipping) >= 3
  /\ \E i \in 1..Len(store.objects) :
        store.objects[i].polygon = last.call.subject

\* C14: when a press enters panning while a box or a lasso stroke is being
\* drawn, the release that ends the pan leaves no temporary box and no lasso
\* stroke.
C14_PanAbandonsDrawing ==
  [][ ( /\ last.op = "mouseDown" /\ last.arg = StartedPan
        /\ isPanning
        /\ inflight = {}
        /\ (store.tempBbox # null \/ isDrawingLasso)
        /\ last'.op = "mouseUp" )
      => /\ store'.tempBbox = null
         /\ store'.lassoPoints = <<>>
         /\ ~isDrawingLasso' ]_vars

\* C15: a primary-button press in lasso tool mode while no object is
\* selected changes nothing: no stroke is started and no lasso point is
\* recorded; and while nothing is selected the move and release events in
\* lasso mode change neither objects nor history.
C15_LassoNeedsSelection ==
  [][ ( /\ store.toolMode = "lasso"
        /\ store.selectedObjectId = null
        /\ ~isPanning /\ ~isSpaceHeld )
      => /\ last'.op = "mouseDown" =>
              /\ store' = store
              /\ isDrawingLasso' = isDrawingLasso
         /\ last'.op \in {"mouseDown", "mouseMove", "mouseUp", "lassoEdit"} =>
              /\ store'.objects = store.objects
              /\ store'.history = store.history
              /\ store'.historyIndex = store.historyIndex ]_vars

C15_Witness ==
  /\ last.op = "mouseDown"
  /\ store.toolMode = "lasso"
  /\ store.selectedObjectId = null
  /\ store.currentImage # null
  /\ ~isDrawingLasso
  /\ store.lassoPoints = <<>>

C17_ViewportLimits ==
  /\ le(Frac(1, 10), store.scale) /\ le(store.scale, Num(5))
  /\ le(Num(0), store.maskOpacity) /\ le(store.maskOpacity, Num(1))
  /\ le(Num(0), store.simplificationEpsilon)
  /\ le(store.simplificationEpsilon, Num(10))

C17_Witness ==
  /\ last.op = "fit"
  /\ containerSize.width < 100
  /\ store.scale = Frac(1, 10)
  /\ store.maskOpacity = Num(1)
  /\ store.simplificationEpsilon = Num(10)

\* C18: after the fit step the stored scale is
\* min((containerW - 100) / imageW, (containerH - 100) / imageH, 1) and the
\* stored offset is (container - image * scale) / 2 on each axis, for the
\* stored scale.
C18_FitCentersImage ==
  ( last.op = "fit" /\ store.currentImage # null )
  => LET currentImage == store.currentImage[1]
         scaleX == Frac(containerSize.width - 100, currentImage.width)
         scaleY == Frac(containerSize.height - 100, currentImage.height)
     IN /\ store.scale = MathMin(MathMin(scaleX, scaleY), Num(1))
        /\ store.position.x =
             over(minus(Num(containerSize.width),
                        times(Num(currentImage.width), store.scale)), Num(2))
        /\ store.position.y =
             over(minus(Num(containerSize.height),
                        times(Num(currentImage.height), store.scale)), Num(2))

clampedBounds(polygon, width, height) ==
  [ x_min |-> MathMax(Num(0), minOf(polygon, 1)),
    y_min |-> MathMax(Num(0), minOf(polygon, 2)),
    x_max |-> MathMin(Num(width), maxOf(polygon, 1)),
    y_max |-> MathMin(Num(height), maxOf(polygon, 2)) ]

\* C20: every object's bbox equals the axis-aligned bounds of its polygon
\* clamped to the image.
C20_BboxIsPolygonBounds ==
  store.currentImage # null =>
    \A i \in 1..Len(store.objects) :
      store.objects[i].bbox =
        clampedBounds(store.objects[i].polygon,
                      store.currentImage[1].width,
                      store.currentImage[1].height)

\* C21: when the clip of a lasso edit returns a non-empty result, the
\* polygon stored in the selected object is one of the result's rings, and
\* no ring of any component of the result has a greater absolute shoelace
\* area.
C21_LargestRingKept ==
  [][ ( /\ last'.op = "lassoEdit"
        /\ ~last'.call.outcome.throws
        /\ last'.call.outcome.result # <<>> )
      => LET rings == allRings(last'.call.outcome.result)
             after == find(store'.objects, store.selectedObjectId)
         IN /\ after # null
            /\ \E i \in 1..Len(rings) : rings[i] = after[1].polygon
            /\ \A j \in 1..Len(rings) :
                 le(MathAbs(polygonArea(rings[j])),
                    MathAbs(polygonArea(after[1].polygon))) ]_vars

C21_Witness ==
  /\ last.op = "lassoEdit"
  /\ last.call.fn = "difference"
  /\ ~last.call.outcome.throws
  /\ Len(last.call.outcome.result) = 2
  /\ store.selectedObjectId # null
  /\ LET obj == find(store.objects, store.selectedObjectId)
     IN /\ obj # null
        /\ obj[1].polygon = last.call.outcome.result[2][1]
        /\ obj[1].polygon # last.call.outcome.result[1][1]

\* C22: the release that ends a bounding-box gesture leaves no temporary
\* box, whether or not it issues a request.
C22_BoxReleaseReturnsToIdle ==
  [][ ( /\ last'.op = "mouseUp"
        /\ ~isPanning
        /\ store.toolMode = "bbox"
        /\ store.tempBbox # null )
      => store'.tempBbox = null ]_vars

\* The image-space point of a pointer position lies outside the current
\* image.
liesOutside(s, pointer) ==
  LET x == over(minus(Num(pointer.x), s.position.x), s.scale)
      y == over(minus(Num(pointer.y), s.position.y), s.scale)
  IN \/ lt(x, Num(0)) \/ lt(Num(s.currentImage[1].width), x)
     \/ lt(y, Num(0)) \/ lt(Num(s.currentImage[1].height), y)

C24_LassoPointsInsideImage ==
  \A i \in 1..Len(store.lassoPoints) :
    /\ store.currentImage # null
    /\ le(Num(0), store.lassoPoints[i].x)
    /\ le(store.lassoPoints[i].x, Num(store.currentImage[1].width))
    /\ le(Num(0), store.lassoPoints[i].y)
    /\ le(store.lassoPoints[i].y, Num(store.currentImage[1].height))

C24_Witness ==
  /\ last.op = "mouseMove"
  /\ ~isPanning
  /\ isDrawingLasso
  /\ store.toolMode = "lasso"
  /\ Len(store.lassoPoints) = 1

\* The sum over i of x_i * y_(i+1) - x_(i+1) * y_i of a ring with integer
\* coordinates, the index after the last being the first.
RECURSIVE crossSum(_, _)
crossSum(ring, i) ==
  IF i = 0 THEN 0
  ELSE LET j == IF i = Len(ring) THEN 1 ELSE i + 1
       IN ring[i][1][1] * ring[j][2][1] - ring[j][1][1] * ring[i][2][1]
            + crossSum(ring, i - 1)

UnitSquare == <<Vtx(0, 0), Vtx(1, 0), Vtx(1, 1), Vtx(0, 1)>>

\* C25: polygonArea returns half the shoelace sum with index wraparound;
\* for the ring (0,0),(1,0),(1,1),(0,1) it returns exactly +1; and the area
\* of the reversed ring is the negated area of the ring.
C25_ShoelaceArea ==
  [][ last'.call.fn = "polygonArea"
      => LET ring == last'.call.subject
             area == last'.call.outcome.result
         IN /\ area = Frac(crossSum(ring, Len(ring)), 2)
            /\ ring = UnitSquare => area = Num(1)
            /\ ( last.call.fn = "polygonArea"
                 /\ ring = Reverse(last.call.subject) )
               => area = minus(Num(0), last.call.outcome.result) ]_vars

C25_Witness ==
  /\ last.call.fn = "polygonArea"
  /\ last.call.subject = Reverse(UnitSquare)
  /\ last.call.outcome.result = Num(-1)

\* C26: when a session exists, a later image exists and there are no
\* unsaved changes, the key N makes the next image the current one; and
\* when an earlier image exists, Shift+N makes the previous image the
\* current one.
C26_KeyNNavigates ==
  [][ ( /\ last'.op = "keyN"
        /\ store.sessionId # null
        /\ ~store.hasUnsavedChanges )
      => /\ ( last'.arg = 1
              /\ store.currentImageIndex < Len(store.images) - 1 )
            => store'.currentImageIndex = store.currentImageIndex + 1
         /\ ( last'.arg = -1 /\ store.currentImageIndex > 0 )
            => store'.currentImageIndex = store.currentImageIndex - 1 ]_vars

\* C27: when a session and a current image exist and objects is not empty,
\* the key Ctrl+S issues a save request for the current image that carries
\* the objects of the moment of the key press.
C27_KeyCtrlSSaves ==
  [][ ( /\ last'.op = "keyCtrlS"
        /\ store.sessionId # null
        /\ store.currentImage # null
        /\ Len(store.objects) > 0
        /\ Len(saves) < MaxSaves )
      => saves' = Append(saves, [image_id |-> store.currentImage[1].id,
                                 objects |-> store.objects]) ]_vars

\* C28: an undo taken right after a mutation that left historyIndex > 0
\* restores the objects that existed just before that mutation, which are
\* the objects of the entry the mutation pushed.
C28_UndoRevertsOneMutation ==
  [][ ( /\ last.op \in Mutators
        /\ store.historyIndex > 0
        /\ last'.op = "undo" )
      => store'.objects = store.history[store.historyIndex + 1].objects ]_vars

\* C29: in every state with historyIndex > 0, undo followed at once by redo
\* gives back the objects of that state.
C29_UndoRedoRoundTrip ==
  store.historyIndex > 0 => redo(undo(store)).objects = store.objects

\* C30: selectedObjectId is null or the id of an object in objects.
C30_SelectionExists ==
  store.selectedObjectId # null =>
    \E i \in 1..Len(store.objects) :
      store.objects[i].id = store.selectedObjectId

\* C31: isLoading is true whenever a segmentation request is in flight.
C31_LoadingWhileInFlight ==
  inflight # {} => store.isLoading

\* C32: when a save succeeds while the objects of the active image differ
\* from the objects every pending save request carries, hasUnsavedChanges
\* is true after the step that handles the success.
C32_SaveKeepsLaterChanges ==
  [][ ( /\ last'.op = "saveResolved"
        /\ store.currentImage # null
        /\ store.hasUnsavedChanges
        /\ \A i \in 1..Len(saves) :
              /\ saves[i].image_id = store.currentImage[1].id
              /\ saves[i].objects # store.objects )
      => store'.hasUnsavedChanges ]_vars

\* C33: a label-load response for an image that is not the current image
\* when it resolves is not applied: the step that handles it leaves the
\* store unchanged.
C33_StaleLabelsNotApplied ==
  [][ ( /\ last'.op = "labelsResolved"
        /\ store.currentImage # null
        /\ last'.arg # store.currentImage[1].id[2] )
      => store' = store ]_vars

\* C34: when a label-load response for the current image is handled while
\* the collection holds objects with unsaved changes, every one of those
\* objects is still in the collection afterwards and hasUnsavedChanges is
\* still true.
C34_LabelsKeepUserWork ==
  [][ ( /\ last'.op = "labelsResolved"
        /\ store.currentImage # null
        /\ last'.arg = store.currentImage[1].id[2]
        /\ store.objects # <<>>
        /\ store.hasUnsavedChanges )
      => /\ \A i \in 1..Len(store.objects) :
              \E j \in 1..Len(store'.objects) :
                store'.objects[j] = store.objects[i]
         /\ store'.hasUnsavedChanges ]_vars

\* C35: a lasso edit whose boolean clip throws or yields an empty result
\* pushes no history entry, keeps historyIndex and hasUnsavedChanges, and
\* leaves every object, its bbox included, as it was.
C35_FailedClipChangesNothing ==
  [][ ( /\ last'.op = "lassoEdit"
        /\ \/ last'.call.outcome.throws
           \/ last'.call.outcome.result = <<>> )
      => /\ store'.history = store.history
         /\ store'.historyIndex = store.historyIndex
         /\ store'.hasUnsavedChanges = store.hasUnsavedChanges
         /\ store'.objects = store.objects ]_vars

\* C36: handleSave with an empty objects collection issues no save request
\* and leaves the store, hasUnsavedChanges and isSaving included, as it was.
C36_EmptySaveDoesNothing ==
  [][ (last'.op = "handleSave" /\ store.objects = <<>>)
      => /\ saves' = saves
         /\ store'.hasUnsavedChanges = store.hasUnsavedChanges
         /\ store'.isSaving = store.isSaving
         /\ store' = store ]_vars

\* handleSave has run after the only object was deleted: nothing is pending
\* and the flag is still true.
C36_Witness ==
  /\ last.op = "handleSave"
  /\ last.pre.objects = 0
  /\ store.sessionId # null /\ store.currentImage # null
  /\ store.objects = <<>>
  /\ store.historyIndex >= 0
  /\ store.hasUnsavedChanges
  /\ ~store.isSaving
  /\ saves = <<>>

\* C37: historyIndex is at least -1 and at most the length of the history
\* minus one, and it is -1 exactly when the history is empty.
C37_HistoryIndexInRange ==
  /\ store.historyIndex >= -1
  /\ store.historyIndex <= Len(store.history) - 1
  /\ (store.historyIndex = -1 <=> store.history = <<>>)

\* reset has emptied a history that held entries.
C37_Witness ==
  /\ last.op = "reset"
  /\ last.pre.history > 0
  /\ last.pre.historyIndex >= 0
  /\ store.history = <<>>
  /\ store.historyIndex = -1

\* C38: whenever the image list is non-empty, currentImageIndex is an index
\* of the list and currentImage is the image at that index; and a
\* setCurrentImageIndex call with an index outside the list leaves the whole
\* store unchanged.
C38_CurrentImageInRange ==
  /\ [](store.images # <<>>
        => /\ store.currentImageIndex >= 0
           /\ store.currentImageIndex < Len(store.images)
           /\ store.currentImage
                = <<store.images[store.currentImageIndex + 1]>>)
  /\ [][ ( /\ last'.op = "setCurrentImageIndex"
           /\ (last'.arg < 0 \/ last'.arg >= Len(store.images)) )
         => store' = store ]_vars

\* An out-of-range call was made with a session, objects and history.
C38_Witness ==
  /\ last.op = "setCurrentImageIndex"
  /\ last.arg = Len(store.images)
  /\ store.images # <<>>
  /\ store.currentImageIndex = 1
  /\ last.pre.objects > 0 /\ last.pre.history > 0
  /\ store.objects # <<>> /\ store.history # <<>>

\* C39: an undo or redo step changes no field of the store other than
\* objects, historyIndex and hasUnsavedChanges, and no state of the canvas;
\* when its guard fails it changes nothing at all.
C39_UndoRedoFrame ==
  [][ last'.op \in {"undo", "redo"}
      => /\ store' = [store EXCEPT
                        !.objects = store'.objects,
                        !.historyIndex = store'.historyIndex,
                        !.hasUnsavedChanges = store'.hasUnsavedChanges]
         /\ UNCHANGED canvasVars
         /\ (last'.op = "undo" /\ ~(store.historyIndex > 0)) => store' = store
         /\ ( /\ last'.op = "redo"
              /\ ~(store.historyIndex < Len(store.history) - 1) )
            => store' = store ]_vars

\* An undo has moved the cursor while an object was selected, outside the
\* initial tool mode.
C39_Witness ==
  /\ last.op = "undo"
  /\ last.pre.historyIndex > 0
  /\ store.historyIndex = last.pre.historyIndex - 1
  /\ store.selectedObjectId # null
  /\ store.toolMode # initialState.toolMode
  /\ store.hasUnsavedChanges

====
